---- MODULE Spec2Model ----
(***************************************************************************)
(* Q16.16 fixed-point arithmetic of packages/sim-core/wasm/fixed-math:     *)
(* mul, div and sqrt over i32, each computed through an i64 intermediate.  *)
(*                                                                         *)
(* The model checker's integers are 32 bits wide, so the i64 intermediates *)
(* are exact integers kept as sign and magnitude, the magnitude a          *)
(* little-endian sequence of bytes without leading zero bytes.  i32        *)
(* values (arguments, results) are plain integers.                         *)
(***************************************************************************)
EXTENDS Integers, Sequences, FiniteSets

\* ------------------------------------------------------------------------
\* Program constants
\* ------------------------------------------------------------------------
I32_MAX == 2147483647
I32_MIN == -I32_MAX - 1
FP_ONE == 65536
FRAC_BITS == 16
SQRT_SCALE_BITS == 8

\* ------------------------------------------------------------------------
\* Magnitudes: naturals as little-endian byte sequences.  The arithmetic is
\* written as functions, so that every argument is a value when it is used.
\* ------------------------------------------------------------------------
Byte == 0 .. 255
Mag == Seq(Byte)

MagNorm[m \in Mag] ==
    IF m = <<>> THEN <<>>
    ELSE IF m[Len(m)] = 0 THEN MagNorm[SubSeq(m, 1, Len(m) - 1)]
    ELSE m

MagOfNat[n \in Nat] ==
    IF n = 0 THEN <<>> ELSE <<n % 256>> \o MagOfNat[n \div 256]

MagCmpFrom[m \in Mag, n \in Mag, i \in Nat] ==
    IF i = 0 THEN 0
    ELSE IF m[i] < n[i] THEN -1
    ELSE IF m[i] > n[i] THEN 1
    ELSE MagCmpFrom[m, n, i - 1]

\* -1, 0, 1 as m <, =, > n
MagCmp[m \in Mag, n \in Mag] ==
    IF Len(m) < Len(n) THEN -1
    ELSE IF Len(m) > Len(n) THEN 1
    ELSE MagCmpFrom[m, n, Len(m)]

MagAddC[m \in Mag, n \in Mag, c \in Byte] ==
    IF m = <<>> /\ n = <<>> THEN (IF c = 0 THEN <<>> ELSE <<c>>)
    ELSE LET dm == IF m = <<>> THEN 0 ELSE Head(m)
             dn == IF n = <<>> THEN 0 ELSE Head(n)
             s  == dm + dn + c
         IN  <<s % 256>> \o MagAddC[IF m = <<>> THEN <<>> ELSE Tail(m),
                                    IF n = <<>> THEN <<>> ELSE Tail(n),
                                    s \div 256]

MagAdd[m \in Mag, n \in Mag] == MagAddC[m, n, 0]

\* m - n for m >= n
MagSubB[m \in Mag, n \in Mag, bw \in Byte] ==
    IF m = <<>> THEN <<>>
    ELSE LET dn == IF n = <<>> THEN 0 ELSE Head(n)
             s  == Head(m) - dn - bw
         IN  <<s % 256>> \o MagSubB[Tail(m),
                                    IF n = <<>> THEN <<>> ELSE Tail(n),
                                    IF s < 0 THEN 1 ELSE 0]

MagSub[m \in Mag, n \in Mag] == MagNorm[MagSubB[m, n, 0]]

MagMulDigit[m \in Mag, d \in Byte, c \in Byte] ==
    IF m = <<>> THEN (IF c = 0 THEN <<>> ELSE <<c>>)
    ELSE LET s == Head(m) * d + c
         IN  <<s % 256>> \o MagMulDigit[Tail(m), d, s \div 256]

MagMulAcc[m \in Mag, n \in Mag] ==
    IF n = <<>> THEN <<>>
    ELSE MagAdd[MagMulDigit[m, Head(n), 0], <<0>> \o MagMulAcc[m, Tail(n)]]

MagMul[m \in Mag, n \in Mag] == MagNorm[MagMulAcc[m, n]]

\* the largest q in acc .. acc + 2 * bit - 1 with q * d <= cur
MagQuotDigit[cur \in Mag, d \in Mag, bit \in Byte, acc \in Byte] ==
    IF bit = 0 THEN acc
    ELSE IF MagCmp[MagMulDigit[d, acc + bit, 0], cur] <= 0
         THEN MagQuotDigit[cur, d, bit \div 2, acc + bit]
         ELSE MagQuotDigit[cur, d, bit \div 2, acc]

\* one byte of long division: cur (the remainder so far with the next byte
\* brought down) gives the quotient byte qd below the quotient bytes hq
MagDivByte[cur \in Mag, d \in Mag, hq \in Mag, qd \in Byte] ==
    << MagNorm[<<qd>> \o hq], MagSub[cur, MagMulDigit[d, qd, 0]] >>

MagDivStep[h \in Mag \X Mag, low \in Byte, d \in Mag] ==
    MagDivByte[MagNorm[<<low>> \o h[2]], d, h[1],
               MagQuotDigit[MagNorm[<<low>> \o h[2]], d, 128, 0]]

\* <<quotient, remainder>> of m by d, by long division a byte at a time;
\* <<0, 0>> for d = 0 (callers guard it)
MagDivMod[m \in Mag, d \in Mag] ==
    IF d = <<>> \/ m = <<>> THEN << <<>>, <<>> >>
    ELSE MagDivStep[MagDivMod[Tail(m), d], Head(m), d]

\* 2^k: k \div 8 zero bytes below the byte 2^(k % 8)
MagPow2[k \in Nat] == [i \in 1 .. (k \div 8) |-> 0] \o <<2 ^ (k % 8)>>

MagToNat[m \in Mag] == IF m = <<>> THEN 0 ELSE Head(m) + 256 * MagToNat[Tail(m)]

\* ------------------------------------------------------------------------
\* Exact integers
\* ------------------------------------------------------------------------
BigInt == [neg : BOOLEAN, mag : Mag]

MkBig[neg \in BOOLEAN, mag \in Mag] == [neg |-> neg /\ mag # <<>>, mag |-> mag]

\* an i32 as an exact integer
Big[n \in Int] ==
    IF n >= 0 THEN MkBig[FALSE, MagOfNat[n]]
    ELSE IF n = I32_MIN THEN MkBig[TRUE, <<0, 0, 0, 128>>]
    ELSE MkBig[TRUE, MagOfNat[-n]]

BigZero == MkBig[FALSE, <<>>]
BigOne == Big[1]
BigNeg[u \in BigInt] == MkBig[~u.neg, u.mag]
BigAbs[u \in BigInt] == MkBig[FALSE, u.mag]

BigAdd[u \in BigInt, v \in BigInt] ==
    IF u.neg = v.neg THEN MkBig[u.neg, MagAdd[u.mag, v.mag]]
    ELSE IF MagCmp[u.mag, v.mag] >= 0 THEN MkBig[u.neg, MagSub[u.mag, v.mag]]
    ELSE MkBig[v.neg, MagSub[v.mag, u.mag]]

BigSub[u \in BigInt, v \in BigInt] == BigAdd[u, BigNeg[v]]

BigMul[u \in BigInt, v \in BigInt] == MkBig[u.neg # v.neg, MagMul[u.mag, v.mag]]

BigLt[u \in BigInt, v \in BigInt] ==
    IF u.neg # v.neg THEN u.neg
    ELSE IF u.neg THEN MagCmp[u.mag, v.mag] > 0
    ELSE MagCmp[u.mag, v.mag] < 0

BigLe[u \in BigInt, v \in BigInt] == ~BigLt[v, u]

\* quotient truncated toward zero
BigDivTrunc[u \in BigInt, v \in BigInt] ==
    MkBig[u.neg # v.neg, MagDivMod[u.mag, v.mag][1]]

\* a quotient of magnitudes h = <<q, r>> rounded toward negative infinity
BigFloorOf[h \in Mag \X Mag, neg \in BOOLEAN] ==
    IF neg
    THEN MkBig[TRUE, IF h[2] = <<>> THEN h[1] ELSE MagAdd[h[1], <<1>>]]
    ELSE MkBig[FALSE, h[1]]

\* quotient rounded toward negative infinity
BigDivFloor[u \in BigInt, v \in BigInt] ==
    BigFloorOf[MagDivMod[u.mag, v.mag], u.neg # v.neg]

\* u - v * floor(u / v): in 0 .. v-1 for v > 0
BigModFloor[u \in BigInt, v \in BigInt] == BigSub[u, BigMul[v, BigDivFloor[u, v]]]

BigPow2[k \in Nat] == MkBig[FALSE, MagPow2[k]]

\* the integer of a value known to lie in the i32 range
BigToInt[u \in BigInt] ==
    IF ~u.neg THEN MagToNat[u.mag]
    ELSE IF u.mag = <<0, 0, 0, 128>> THEN I32_MIN
    ELSE -MagToNat[u.mag]

\* ------------------------------------------------------------------------
\* i64 and i32 machine arithmetic.  A machine value is [v, f]: v the integer
\* it holds (exact for an i64, plain for an i32), f the first fault met
\* while computing it:
\*   "none"            no fault
\*   "arith_overflow"  +, * left the i64 range: a panic with overflow checks
\*                     on (debug profile), a two's-complement wrap with them
\*                     off (release profile)
\*   "shl_lost_bits"   << shifted significant bits out (never a panic)
\*   "div_by_zero"     / by zero: a panic in every profile
\*   "div_overflow"    i64::MIN / -1: a panic in every profile
\* ------------------------------------------------------------------------
Faults == {"none", "arith_overflow", "shl_lost_bits", "div_by_zero", "div_overflow"}
I64V == [v : BigInt, f : Faults]
I32V == [v : Int, f : Faults]

Two31 == BigPow2[31]
Two32 == BigPow2[32]
Two63 == BigPow2[63]
Two64 == BigPow2[64]

InI32[u \in BigInt] == BigLe[BigNeg[Two31], u] /\ BigLt[u, Two31]
InI64[u \in BigInt] == BigLe[BigNeg[Two63], u] /\ BigLt[u, Two63]

\* two's-complement reduction to the signed range -half .. half - 1
WrapTo[u \in BigInt, half \in BigInt, full \in BigInt] ==
    BigSub[BigModFloor[BigAdd[u, half], full], half]

WrapI64[u \in BigInt] == IF InI64[u] THEN u ELSE WrapTo[u, Two63, Two64]
WrapI32[u \in BigInt] == WrapTo[u, Two31, Two32]

First[f \in Faults, g \in Faults] == IF f # "none" THEN f ELSE g

\* the i64 holding the exact result e, with fault g if e left the i64 range
I64Of[e \in BigInt, f \in Faults, g \in Faults] ==
    [v |-> WrapI64[e], f |-> First[f, IF InI64[e] THEN "none" ELSE g]]

\* `n as i64` for an i32 n, and an i64 literal
AsI64[n \in Int] == [v |-> Big[n], f |-> "none"]

\* `p * q` on i64
I64Mul[p \in I64V, q \in I64V] ==
    I64Of[BigMul[p.v, q.v], First[p.f, q.f], "arith_overflow"]

\* `p + q` on i64
I64Add[p \in I64V, q \in I64V] ==
    I64Of[BigAdd[p.v, q.v], First[p.f, q.f], "arith_overflow"]

\* `p >> k` on i64: arithmetic shift, the floor of p / 2^k
I64Shr[p \in I64V, k \in Nat] == [v |-> BigDivFloor[p.v, BigPow2[k]], f |-> p.f]

\* `p << k` on i64: bits shifted out of the 64 are dropped
I64Shl[p \in I64V, k \in Nat] ==
    I64Of[BigMul[p.v, BigPow2[k]], p.f, "shl_lost_bits"]

\* `p / q` on i64: truncates toward zero
I64Div[p \in I64V, q \in I64V] ==
    I64Of[BigDivTrunc[p.v, q.v],
          First[p.f, First[q.f, IF q.v = BigZero THEN "div_by_zero" ELSE "none"]],
          "div_overflow"]

\* `p as i32`: the low 32 bits, as a plain integer
AsI32[p \in I64V] == [v |-> BigToInt[WrapI32[p.v]], f |-> p.f]

\* a returned i32 constant
RetI32[n \in Int] == [v |-> n, f |-> "none"]

\* ------------------------------------------------------------------------
\* The three operations
\* ------------------------------------------------------------------------
\* mul with the product divided by 65536 (rounding toward zero) instead of
\* shifted
mul_div_instead_of_shift(a, b) ==
    LET a64    == AsI64[a]
        b64    == AsI64[b]
        result == I64Div[I64Mul[a64, b64], AsI64[FP_ONE]]
    IN  AsI32[result]

\* mul with the product taken in 32 bits, before widening
mul_narrow_product(a, b) ==
    LET p32    == [v |-> WrapI32[BigMul[Big[a], Big[b]]], f |-> "none"]
        result == I64Shr[p32, FRAC_BITS]
    IN  AsI32[result]

\* pub fn mul(a: i32, b: i32) -> i32
mul(a, b) ==
    LET a64    == AsI64[a]
        b64    == AsI64[b]
        result == I64Shr[I64Mul[a64, b64], FRAC_BITS]
    IN  AsI32[result]

\* div without the scaling shift of the dividend
div_no_shift(a, b) ==
    IF b = 0
    THEN RetI32[IF a >= 0 THEN I32_MAX ELSE I32_MIN]
    ELSE LET a64    == AsI64[a]
             b64    == AsI64[b]
             result == I64Div[a64, b64]
         IN  AsI32[result]

\* div without the zero-divisor guard
div_unguarded(a, b) ==
    LET a64    == AsI64[a]
        b64    == AsI64[b]
        result == I64Div[I64Shl[a64, FRAC_BITS], b64]
    IN  AsI32[result]

\* div with a flooring quotient
div_floor(a, b) ==
    IF b = 0
    THEN RetI32[IF a >= 0 THEN I32_MAX ELSE I32_MIN]
    ELSE LET a64 == AsI64[a]
             b64 == AsI64[b]
             n   == I64Shl[a64, FRAC_BITS]
         IN  AsI32[[v |-> BigDivFloor[n.v, b64.v], f |-> n.f]]

\* pub fn div(a: i32, b: i32) -> i32
div(a, b) ==
    IF b = 0
    THEN RetI32[IF a >= 0 THEN I32_MAX ELSE I32_MIN]
    ELSE LET a64    == AsI64[a]
             b64    == AsI64[b]
             result == I64Div[I64Shl[a64, FRAC_BITS], b64]
         IN  AsI32[result]

\* the guard as `fp < 0`
sqrt_rejects_negative_only(fp) == fp < 0

\* the first guess as `x >> 1`
sqrt_y0_no_round(x0) == I64Shr[x0, 1]

\* the loop condition as `y <= x`
sqrt_continues_on_equal(xv, yv) == BigLe[yv.v, xv.v]

\* the Newton step without its halving
sqrt_next_y_no_halving(xv, fp64) == I64Add[xv, I64Div[fp64, xv]]

\* the result rescaled by 2^16
sqrt_result_q16(xv) == AsI32[I64Shl[xv, FRAC_BITS]]

\* pub fn sqrt(fp: i32) -> i32, one definition per statement of its body
\* `if fp <= 0 { return 0; }`
sqrt_rejects(fp) == fp <= 0

\* `let fp64 = fp as i64; let mut x = fp64;`
sqrt_x0(fp) == AsI64[fp]

\* `let mut y = (x + 1) >> 1;`
sqrt_y0(x0) == I64Shr[I64Add[x0, AsI64[1]], 1]

\* `while y < x`
sqrt_continues(xv, yv) == BigLt[yv.v, xv.v]

\* `y = (x + (fp64 / x)) >> 1;` with x already assigned
sqrt_next_y(xv, fp64) == I64Shr[I64Add[xv, I64Div[fp64, xv]], 1]

\* `let result = (x << 8) as i64; result as i32`
sqrt_result(xv) == AsI32[I64Shl[xv, SQRT_SCALE_BITS]]

\* ------------------------------------------------------------------------
\* A call: the host picks an operation and its i32 arguments
\* ------------------------------------------------------------------------
SmallMax == 3
SqrtSmallMax == 40
RootMax == 12

Operands ==
    (-SmallMax .. SmallMax) \cup
    { I32_MIN, I32_MIN + 1, -1431655765, -1073741824, -305419896, -262144,
      -131072, -98304, -65537, -65536, -65535, -32768, -12345, -257, -256, -255,
      255, 256, 257, 12345, 32767, 32768, 46340, 46341, 65535, 65536, 65537,
      98304, 131072, 262144, 305419896, 1073741823, 1073741824, 1431655765,
      2147418112, I32_MAX - 1, I32_MAX }

Roots ==
    (1 .. RootMax) \cup
    { 181, 255, 256, 257, 512, 1000, 3037, 4096, 23170, 32768, 46339, 46340 }

SqrtInputs ==
    Operands \cup (1 .. SqrtSmallMax) \cup
    { k * k + d : k \in Roots, d \in {-1, 0, 1} }

\* the locals of sqrt before they are assigned
NoI64 == AsI64[0]

VARIABLES
    pc,               \* "idle", "loop" (inside sqrt's while), "returned", "panicked"
    op,               \* "none", "mul", "div", "sqrt"
    a, b,             \* the call's arguments (sqrt: a is fp, b is 0)
    x, y,             \* sqrt's locals
    result,           \* the returned i32
    fault,            \* the first fault of the call, "none" without one
    overflow_checks   \* the build profile: TRUE debug, FALSE release

vars == <<pc, op, a, b, x, y, result, fault, overflow_checks>>

\* whether a fault aborts the call
Panics(f) ==
    \/ f \in {"div_by_zero", "div_overflow"}
    \/ f = "arith_overflow" /\ overflow_checks

Init ==
    /\ pc = "idle"
    /\ op = "none"
    /\ a = 0
    /\ b = 0
    /\ x = NoI64
    /\ y = NoI64
    /\ result = 0
    /\ fault = "none"
    /\ overflow_checks \in BOOLEAN

\* the end of a call that computed `out`
Finish(out) ==
    /\ fault' = out.f
    /\ pc' = IF Panics(out.f) THEN "panicked" ELSE "returned"
    /\ result' = IF Panics(out.f) THEN 0 ELSE out.v

call_mul(a0, b0) ==
    /\ pc = "idle"
    /\ op' = "mul"
    /\ a' = a0
    /\ b' = b0
    /\ \E out \in {mul(a0, b0)} : Finish(out)
    /\ UNCHANGED <<x, y, overflow_checks>>

call_div(a0, b0) ==
    /\ pc = "idle"
    /\ op' = "div"
    /\ a' = a0
    /\ b' = b0
    /\ \E out \in {div(a0, b0)} : Finish(out)
    /\ UNCHANGED <<x, y, overflow_checks>>

\* sqrt up to the first test of the while condition
sqrt_enter(fp) ==
    /\ pc = "idle"
    /\ op' = "sqrt"
    /\ a' = fp
    /\ b' = 0
    /\ IF sqrt_rejects(fp)
       THEN /\ Finish(RetI32[0])
            /\ UNCHANGED <<x, y>>
       ELSE \E x0 \in {sqrt_x0(fp)} : \E y0 \in {sqrt_y0(x0)} :
                /\ x' = x0
                /\ y' = y0
                /\ fault' = y0.f
                /\ pc' = IF Panics(y0.f) THEN "panicked" ELSE "loop"
                /\ UNCHANGED result
    /\ UNCHANGED overflow_checks

\* one iteration of the while body
sqrt_loop ==
    /\ pc = "loop"
    /\ sqrt_continues(x, y)
    /\ \E y1 \in {sqrt_next_y(y, sqrt_x0(a))} :
           /\ x' = y
           /\ y' = y1
           /\ fault' = y1.f
           /\ pc' = IF Panics(y1.f) THEN "panicked" ELSE "loop"
    /\ UNCHANGED <<op, a, b, result, overflow_checks>>

\* the while condition fails: rescale and return
sqrt_exit ==
    /\ pc = "loop"
    /\ ~sqrt_continues(x, y)
    /\ \E out \in {sqrt_result(x)} : Finish(out)
    /\ UNCHANGED <<op, a, b, x, y, overflow_checks>>

CallMul == \E a0 \in Operands, b0 \in Operands : call_mul(a0, b0)
CallDiv == \E a0 \in Operands, b0 \in Operands : call_div(a0, b0)
CallSqrt == \E fp \in SqrtInputs : sqrt_enter(fp)

Next == CallMul \/ CallDiv \/ CallSqrt \/ sqrt_loop \/ sqrt_exit

Spec == Init /\ [][Next]_vars

\* the running call is never preempted for good: its next statement executes
FairSpec == Spec /\ WF_vars(sqrt_loop) /\ WF_vars(sqrt_exit)

\* ------------------------------------------------------------------------
\* Properties
\* ------------------------------------------------------------------------
Two47 == BigPow2[47]
Two48 == BigPow2[48]

Returned(o) == pc = "returned" /\ op = o

\* a * b, exactly
ExactProduct == BigMul[Big[a], Big[b]]

\* a * 65536, exactly
ScaledDividend == BigMul[Big[a], Big[FP_ONE]]

\* a * b - 65536 * result
MulResidue == BigSub[ExactProduct, BigMul[Big[FP_ONE], Big[result]]]

\* a * 65536 - result * b
DivResidue == BigSub[ScaledDividend, BigMul[Big[result], Big[b]]]

\* r is the remainder left by the quotient of n by d truncated toward zero
IsTruncRemainder(r, n, d) ==
    /\ BigLt[BigAbs[r], BigAbs[d]]
    /\ r = BigZero \/ r.neg = n.neg

\* C1 (as stated): div(131072, 65536) returns 65536.
C1_DivTwoByOneIsOne ==
    (Returned("div") /\ a = 131072 /\ b = 65536) => result = 65536

\* C1 (amended): div(131072, 65536) returns 131072, the encoding of 2.0,
\* without a fault.
C1_DivTwoByOneIsTwo ==
    (op = "div" /\ a = 131072 /\ b = 65536)
        => (pc = "returned" /\ result = 131072 /\ fault = "none")

C1_Witness == Returned("div") /\ a = 131072 /\ b = 65536

\* C2: div(a, 0) returns i32::MAX for a >= 0 and i32::MIN for a < 0; the call
\* returns without a fault (no division is evaluated).
C2_DivByZeroSentinel ==
    (op = "div" /\ b = 0)
        => /\ pc = "returned"
           /\ fault = "none"
           /\ result = IF a >= 0 THEN I32_MAX ELSE I32_MIN

C2_Witness == Returned("div") /\ b = 0 /\ a < 0 /\ result = I32_MIN

\* C3: mul(a, b) is floor(a * b / 65536) reduced modulo 2^32: the residue
\* a * b - 65536 * mul(a, b) is congruent modulo 2^48 to a value in
\* 0 .. 65535; and when the floor fits 32 bits (-2^47 <= a * b < 2^47) the
\* residue itself lies in 0 .. 65535.
C3_MulFloorsAndWraps ==
    op = "mul"
        => /\ pc = "returned"
           /\ BigLt[BigModFloor[MulResidue, Two48], Big[FP_ONE]]
           /\ (BigLe[BigNeg[Two47], ExactProduct] /\ BigLt[ExactProduct, Two47])
                 => (BigLe[BigZero, MulResidue] /\ BigLt[MulResidue, Big[FP_ONE]])

\* a negative product that is no multiple of 65536, the floor within 32 bits
C3_Witness ==
    /\ Returned("mul")
    /\ ExactProduct.neg
    /\ BigLt[BigNeg[Two47], ExactProduct]
    /\ MulResidue # BigZero

\* C4: for b # 0, div(a, b) is the quotient of a * 65536 by b truncated
\* toward zero, reduced modulo 2^32: a * 65536 - div(a, b) * b differs by a
\* multiple of 2^32 * b from the remainder of the truncated division; it is
\* that remainder when the quotient fits 32 bits; and div(i32::MIN, -1)
\* wraps to 0 without a fault.
C4_DivTruncatesAndWraps ==
    (op = "div" /\ b # 0)
        => /\ pc = "returned"
           /\ fault = "none"
           /\ LET m == BigMul[Two32, BigAbs[Big[b]]]
                  e == BigModFloor[DivResidue, m]
              IN  IsTruncRemainder(IF e # BigZero /\ ScaledDividend.neg
                                   THEN BigSub[e, m] ELSE e,
                                   ScaledDividend, Big[b])
           /\ InI32[BigDivTrunc[ScaledDividend, Big[b]]]
                 => IsTruncRemainder(DivResidue, ScaledDividend, Big[b])
           /\ (a = I32_MIN /\ b = -1) => result = 0

\* a negative quotient with a non-zero remainder, within 32 bits
C4_Witness ==
    /\ Returned("div")
    /\ b # 0
    /\ ScaledDividend.neg # Big[b].neg
    /\ InI32[BigDivTrunc[ScaledDividend, Big[b]]]
    /\ DivResidue # BigZero

\* C5: for fp > 0 the call does not fault, and at the exit of the Newton loop
\* x * x <= fp < (x + 1) * (x + 1); sqrt returns x * 256, a positive multiple
\* of 256 that fits 32 bits.
C5_SqrtIsIsqrtTimes256 ==
    (op = "sqrt" /\ a > 0)
        => /\ pc \in {"loop", "returned"}
           /\ pc = "returned"
                 => /\ BigLe[BigMul[x.v, x.v], Big[a]]
                    /\ BigLt[Big[a], BigMul[BigAdd[x.v, BigOne], BigAdd[x.v, BigOne]]]
                    /\ InI32[BigMul[x.v, Big[256]]]
                    /\ Big[result] = BigMul[x.v, Big[256]]
                    /\ result > 0
                    /\ result % 256 = 0

C5_Witness == Returned("sqrt") /\ a = I32_MAX /\ result = 46340 * 256

\* C6: for fp <= 0 sqrt returns 0 at once: the loop is never entered and the
\* locals x, y are never assigned.
C6_SqrtNonPositiveIsZero ==
    (op = "sqrt" /\ a <= 0)
        => /\ pc = "returned"
           /\ result = 0
           /\ fault = "none"
           /\ x = NoI64
           /\ y = NoI64

C6_Witness == Returned("sqrt") /\ a = I32_MIN /\ result = 0

\* candidate Q16.16 roots
RootCandidates ==
    { 256 * k : k \in Roots \cup {0} } \cup
    { q \in Operands : q >= 0 } \cup
    { 256 * k + d : k \in 1 .. RootMax, d \in {-1, 1, 128} }

\* C7: for every q >= 0 with q * q = fp * 65536, sqrt(fp) = q.
C7_SqrtRoundTrip ==
    Returned("sqrt")
        => \A q \in RootCandidates :
              BigMul[Big[q], Big[q]] = ScaledDividend => result = q

C7_Witness == Returned("sqrt") /\ a = 262144 /\ result = 131072

\* C8: mul(x, 65536) = x and div(x, 65536) = x for every i32 x.
C8_OneIsRightIdentity ==
    (op \in {"mul", "div"} /\ b = FP_ONE) => (pc = "returned" /\ result = a)

C8_Witness == Returned("div") /\ b = FP_ONE /\ a = I32_MIN /\ result = I32_MIN

\* C9: inside the loop x >= 1; an iteration that stays in the loop strictly
\* decreases x; and a call inside the loop eventually returns.
C9_SqrtTerminates ==
    /\ [](pc = "loop" => BigLe[BigOne, x.v])
    /\ [][(pc = "loop" /\ pc' = "loop") => BigLt[x'.v, x.v]]_vars
    /\ (pc = "loop") ~> (pc = "returned")

\* the loop has iterated down to isqrt(i32::MAX) and its condition now fails
C9_Witness ==
    /\ pc = "loop"
    /\ a = I32_MAX
    /\ x.v = Big[46340]
    /\ ~sqrt_continues(x, y)

\* C10: no call faults: no i64 intermediate leaves the i64 range, no division
\* is by zero or i64::MIN / -1, no call panics, and the divisor of the next
\* fp64 / x (the y about to be assigned to x) is >= 1.
C10_NoFault ==
    /\ fault = "none"
    /\ pc # "panicked"
    /\ x.f = "none"
    /\ y.f = "none"
    /\ (pc = "loop" /\ sqrt_continues(x, y)) => BigLe[BigOne, y.v]

\* the largest product: i32::MIN * i32::MIN = 2^62
C10_Witness ==
    /\ Returned("mul")
    /\ a = I32_MIN
    /\ b = I32_MIN
    /\ ExactProduct = BigPow2[62]

====
